---- MODULE Spec2Model ----
(***************************************************************************)
(* Verification model of jobmail-processor: the redirect resolver          *)
(* (src/src/redirectFollower.ts), the wildcard pattern matcher and the     *)
(* structural link extractor (linkExtractor.ts) and the structural         *)
(* pipeline processJobEmails (index.ts).                                   *)
(*                                                                         *)
(* Strings are sequences of one-character strings.  JavaScript's           *)
(* `undefined` is the string Undefined for string-valued fields and the    *)
(* empty sequence for the optional redirectChain.                          *)
(***************************************************************************)
EXTENDS Integers, Sequences, FiniteSets, TLC

\* ------------------------------------------------------------------------
\* Bounds of the model
\* ------------------------------------------------------------------------
MaxUrls == 3        \* longest URL list handed to followRedirectsBatch
MaxConc == 2        \* largest maxConcurrent tried
MaxWindows == 4     \* windows recorded in one call (a negative step stops there; a zero step goes on unrecorded)

Undefined == "undefined"

\* URLs handed to the resolver, and the URL a redirect chain may end in.
URLS == {<<"a">>, <<"b">>}
Landing == <<"t">>

Min(x, y) == IF x < y THEN x ELSE y
Max(x, y) == IF x > y THEN x ELSE y

\* Array.prototype.slice(start, end) on a sequence (0-based, negative
\* indices count from the end, both clamped to [0, length]).
SliceIndex(len, k) == IF k < 0 THEN Max(len + k, 0) ELSE Min(k, len)
Slice(s, start, end) ==
    LET from == SliceIndex(Len(s), start)
        to   == SliceIndex(Len(s), end)
    IN  IF from >= to THEN <<>> ELSE SubSeq(s, from + 1, to)

\* ------------------------------------------------------------------------
\* followRedirects (redirectFollower.ts:20-66)
\* ------------------------------------------------------------------------
\* What `await fetch(url, {method: "HEAD", redirect: "follow", signal})` can
\* settle to: a response (whatever its HTTP status; fetch does not reject on
\* 4xx/5xx) whose url is the end of the redirect chain, or a rejection: the
\* abort fired by the timeout, or a network-level failure.
HttpStatuses == {200, 404}
FetchOutcomes(url) ==
    {[kind |-> "response", url |-> f, status |-> s, message |-> Undefined] :
        f \in {url, Landing}, s \in HttpStatuses}
    \cup
    {[kind |-> "reject", url |-> url, status |-> 0, message |-> m] :
        m \in {"This operation was aborted", "fetch failed"}}

\* followRedirects without its try/catch: a rejected fetch escapes.
followRedirectsNoCatch(url, debugMode, fetched) ==
    IF fetched.kind = "response"
    THEN [kind |-> "return",
          value |-> [finalUrl |-> fetched.url, success |-> TRUE,
                     error |-> Undefined,
                     redirectChain |-> IF debugMode THEN <<url, fetched.url>>
                                                    ELSE <<>>]]
    ELSE [kind |-> "throw",
          value |-> [finalUrl |-> url, success |-> FALSE,
                     error |-> fetched.message, redirectChain |-> <<>>]]

\* The completion of one call of followRedirects, given what its fetch
\* settled to.  kind = "return": the promise is fulfilled with value;
\* kind = "throw": the promise is rejected.
followRedirects(url, debugMode, fetched) ==
    IF fetched.kind = "response"
    THEN \* lines 39-51: response.url is taken whatever response.status is
         [kind |-> "return",
          value |-> [finalUrl |-> fetched.url, success |-> TRUE,
                     error |-> Undefined,
                     redirectChain |-> IF debugMode THEN <<url, fetched.url>>
                                                    ELSE <<>>]]
    ELSE \* lines 52-65: catch
         [kind |-> "return",
          value |-> [finalUrl |-> url, success |-> FALSE,
                     error |-> fetched.message, redirectChain |-> <<>>]]

\* ------------------------------------------------------------------------
\* followRedirectsBatch (redirectFollower.ts:71-90)
\* ------------------------------------------------------------------------
VARIABLES
    urls,           \* argument: the URL list
    debugMode,      \* argument
    maxConcurrent,  \* argument
    i,              \* loop index (0-based)
    pc,             \* "loop" | "await" | "done" | "thrown"
    batch,          \* the current window: urls.slice(i, i + maxConcurrent)
    batchPromises,  \* one promise per element of batch
    results,        \* the Map: a function from its keys to RedirectResults
    issued,         \* history: number of probes issued so far, per URL
    outcomeAt,      \* history: position in urls -> result of its probe
    windows         \* history: the windows started so far, in order

batchVars == <<urls, debugMode, maxConcurrent, i, pc, batch, batchPromises,
               results, issued, outcomeAt, windows>>

NoResult == [finalUrl |-> <<>>, success |-> FALSE, error |-> Undefined,
             redirectChain |-> <<>>]
NotFetched == [kind |-> "none", url |-> <<>>, status |-> 0,
               message |-> Undefined]
\* A promise returned by followRedirects whose fetch has not settled yet.
\* pos (the position of its URL in urls) and fetched (what its fetch settled
\* to) are history fields.
Pending == [state |-> "pending", url |-> <<>>, pos |-> 0,
            fetched |-> NotFetched, value |-> NoResult]

UrlLists == UNION {[1..n -> URLS] : n \in 0..MaxUrls}

\* Map.prototype.set
MapSet(m, k, v) == [x \in (DOMAIN m) \cup {k} |-> IF x = k THEN v ELSE m[x]]

\* A forEach that pairs every URL with the first result of the window.
RECURSIVE storeResultsFirst(_, _, _, _)
storeResultsFirst(m, b, bp, k) ==
    IF k > Len(b) THEN m
    ELSE storeResultsFirst(MapSet(m, b[k], bp[1].value), b, bp, k + 1)

\* batch.forEach((url, index) => results.set(url, batchResults[index]))
RECURSIVE storeResults(_, _, _, _)
storeResults(m, b, bp, k) ==
    IF k > Len(b) THEN m
    ELSE storeResults(MapSet(m, b[k], bp[k].value), b, bp, k + 1)

\* A Promise.all that lets the loop go on as soon as one promise is fulfilled.
AnyFulfilled(bp) == bp = <<>> \/ \E k \in DOMAIN bp : bp[k].state = "fulfilled"

\* await Promise.all(batchPromises) resumes when every promise is fulfilled.
AllFulfilled(bp) == \A k \in DOMAIN bp : bp[k].state = "fulfilled"

InFlight == Cardinality({k \in DOMAIN batchPromises :
                            batchPromises[k].state = "pending"})

BatchInit ==
    /\ urls \in UrlLists
    /\ debugMode \in BOOLEAN
    /\ maxConcurrent \in -1..MaxConc
    /\ i = 0
    /\ pc = "loop"
    /\ batch = <<>>
    /\ batchPromises = <<>>
    /\ results = <<>>
    /\ issued = [u \in URLS |-> 0]
    /\ outcomeAt = <<>>
    /\ windows = <<>>

\* The window a resolver that slices one element too many would take.
WindowOffByOne(us, idx, size) == Slice(us, idx, idx + size + 1)

\* The window taken at loop index i.
Window(us, idx, size) == Slice(us, idx, idx + size)

\* Loop head with i < urls.length: slice the window and call followRedirects
\* on each of its URLs (each call runs synchronously up to its fetch), then
\* suspend in Promise.all.
StartWindow ==
    /\ pc = "loop"
    /\ i < Len(urls)
    /\ Len(windows) < MaxWindows \/ maxConcurrent = 0
    /\ LET b == Window(urls, i, maxConcurrent) IN
        /\ batch' = b
        /\ batchPromises' = [k \in 1..Len(b) |->
                [Pending EXCEPT !.url = b[k],
                                !.pos = SliceIndex(Len(urls), i) + k]]
        /\ issued' = [u \in URLS |->
                        issued[u] + Cardinality({k \in 1..Len(b) : b[k] = u})]
        /\ windows' = IF Len(windows) < MaxWindows THEN Append(windows, b)
                                                ELSE windows
    /\ pc' = "await"
    /\ UNCHANGED <<urls, debugMode, maxConcurrent, i, results, outcomeAt>>

\* The fetch of one in-flight probe settles and its followRedirects call
\* completes.
ProbeSettles ==
    /\ pc = "await"
    /\ \E k \in DOMAIN batchPromises :
        /\ batchPromises[k].state = "pending"
        /\ \E fetched \in FetchOutcomes(batch[k]) :
            LET c == followRedirects(batch[k], debugMode, fetched) IN
            /\ batchPromises' = [batchPromises EXCEPT
                    ![k].state = IF c.kind = "return" THEN "fulfilled"
                                                      ELSE "rejected",
                    ![k].fetched = fetched,
                    ![k].value = c.value]
            /\ outcomeAt' = IF c.kind = "return"
                            THEN MapSet(outcomeAt, batchPromises[k].pos, c.value)
                            ELSE outcomeAt
    /\ UNCHANGED <<urls, debugMode, maxConcurrent, i, pc, batch, results,
                   issued, windows>>

\* Promise.all settles: fulfilled when every promise of the window is
\* fulfilled (the results are stored and the loop advances), rejected as
\* soon as one is rejected (the rejection leaves followRedirectsBatch).
WindowDone ==
    /\ pc = "await"
    /\ IF \E k \in DOMAIN batchPromises : batchPromises[k].state = "rejected"
       THEN /\ pc' = "thrown"
            /\ UNCHANGED <<i, results>>
       ELSE /\ AllFulfilled(batchPromises)
            /\ results' = storeResults(results, batch, batchPromises, 1)
            /\ i' = i + maxConcurrent
            /\ pc' = "loop"
    /\ UNCHANGED <<urls, debugMode, maxConcurrent, batch, batchPromises,
                   issued, outcomeAt, windows>>

\* Loop head with i >= urls.length: return results.
BatchReturn ==
    /\ pc = "loop"
    /\ i >= Len(urls)
    /\ pc' = "done"
    /\ UNCHANGED <<urls, debugMode, maxConcurrent, i, batch, batchPromises,
                   results, issued, outcomeAt, windows>>

BatchNext == StartWindow \/ ProbeSettles \/ WindowDone \/ BatchReturn

\* followRedirectsBatch has not been called.
BatchIdle ==
    /\ urls = <<>> /\ debugMode = FALSE /\ maxConcurrent = 1 /\ i = 0
    /\ pc = "idle" /\ batch = <<>> /\ batchPromises = <<>> /\ results = <<>>
    /\ issued = [u \in URLS |-> 0] /\ outcomeAt = <<>> /\ windows = <<>>

\* ------------------------------------------------------------------------
\* matchesPattern (linkExtractor.ts, src/unnamed/part_001:23-32)
\* ------------------------------------------------------------------------
MaxUrlLen == 3      \* longest url tried against a pattern
MaxPatLen == 3      \* longest pattern

\* Characters of the urls and patterns tried: a letter, the path separator,
\* two regex metacharacters, the wildcard and a line terminator.
Chars == {"a", "/", ".", "?", "*", "\n"}

\* The characters /[.+?^${}()|[\]\\]/ escapes.
RegexMeta == {".", "+", "?", "^", "$", "{", "}", "(", ")", "|", "[", "]", "\\"}

\* The characters the regex atom `.` does not match (no `s` flag).
LineTerminators == {"\n", "\r"}

Strings(alphabet, n) == UNION {[1..k -> alphabet] : k \in 0..n}

\* pattern.replace(/[.+?^${}()|[\]\\]/g, "\\$&")
RECURSIVE escapeMeta(_)
escapeMeta(p) ==
    IF p = <<>> THEN <<>>
    ELSE (IF Head(p) \in RegexMeta THEN <<"\\", Head(p)>> ELSE <<Head(p)>>)
         \o escapeMeta(Tail(p))

\* .replace(/\*/g, ".*")
RECURSIVE replaceStar(_)
replaceStar(p) ==
    IF p = <<>> THEN <<>>
    ELSE (IF Head(p) = "*" THEN <<".", "*">> ELSE <<Head(p)>>)
         \o replaceStar(Tail(p))

\* new RegExp(source): the source read as a sequence of terms.  A term is an
\* assertion (^ or $) or an atom (an escaped or plain character, or `.`),
\* the atom possibly followed by the quantifier `*`.
RECURSIVE compileRegExp(_)
compileRegExp(src) ==
    IF src = <<>> THEN <<>>
    ELSE LET c == Head(src) IN
         IF c = "^" THEN <<[kind |-> "bol", ch |-> c, star |-> FALSE]>>
                         \o compileRegExp(Tail(src))
         ELSE IF c = "$" THEN <<[kind |-> "eol", ch |-> c, star |-> FALSE]>>
                              \o compileRegExp(Tail(src))
         ELSE LET escaped == c = "\\" /\ Len(src) >= 2
                  atom == IF escaped THEN [kind |-> "lit", ch |-> src[2]]
                          ELSE IF c = "." THEN [kind |-> "any", ch |-> c]
                          ELSE [kind |-> "lit", ch |-> c]
                  rest == IF escaped THEN Tail(Tail(src)) ELSE Tail(src)
                  starred == rest # <<>> /\ Head(rest) = "*"
              IN  <<[kind |-> atom.kind, ch |-> atom.ch, star |-> starred]>>
                  \o compileRegExp(IF starred THEN Tail(rest) ELSE rest)

atomMatches(term, c) ==
    IF term.kind = "any" THEN c \notin LineTerminators ELSE c = term.ch

\* Does the regex match s starting at offset pos (0-based)?
RECURSIVE matchHere(_, _, _)
matchHere(terms, s, pos) ==
    IF terms = <<>> THEN TRUE
    ELSE LET t == Head(terms) IN
         IF t.kind = "bol" THEN pos = 0 /\ matchHere(Tail(terms), s, pos)
         ELSE IF t.kind = "eol"
              THEN pos = Len(s) /\ matchHere(Tail(terms), s, pos)
         ELSE IF t.star
              THEN \/ matchHere(Tail(terms), s, pos)
                   \/ /\ pos < Len(s)
                      /\ atomMatches(t, s[pos + 1])
                      /\ matchHere(terms, s, pos + 1)
         ELSE /\ pos < Len(s)
              /\ atomMatches(t, s[pos + 1])
              /\ matchHere(Tail(terms), s, pos + 1)

\* RegExp.prototype.test: a match starting at some offset.
regexTest(terms, s) == \E start \in 0..Len(s) : matchHere(terms, s, start)

matchesPattern(url, pattern) ==
    LET regexPattern == replaceStar(escapeMeta(pattern))
        regex == compileRegExp(<<"^">> \o regexPattern \o <<"$">>)
    IN  regexTest(regex, url)

VARIABLES
    mUrl,       \* argument url
    mPattern,   \* argument pattern
    mPc,        \* "call" | "returned"
    mResult     \* the value returned

matchVars == <<mUrl, mPattern, mPc, mResult>>

MatchInit ==
    /\ mUrl \in Strings(Chars, MaxUrlLen)
    /\ mPattern \in Strings(Chars, MaxPatLen)
    /\ mPc = "call"
    /\ mResult = FALSE

MatchIdle ==
    mUrl = <<>> /\ mPattern = <<>> /\ mPc = "idle" /\ mResult = FALSE

MatchCall ==
    /\ mPc = "call"
    /\ mResult' = matchesPattern(mUrl, mPattern)
    /\ mPc' = "returned"
    /\ UNCHANGED <<mUrl, mPattern>>

\* ------------------------------------------------------------------------
\* extractLinks (linkExtractor.ts, src/unnamed/part_001:37-164)
\* ------------------------------------------------------------------------
MaxNodes == 2       \* most nodes a selector yields on one document

\* String.prototype.toLowerCase on the characters used in link texts.
lowerChar(c) == IF c = "J" THEN "j" ELSE IF c = "X" THEN "x" ELSE c
toLowerCase(s) == [k \in DOMAIN s |-> lowerChar(s[k])]

\* String.prototype.trim
WhiteSpace == {" ", "\t", "\n", "\r"}
RECURSIVE trimStart(_)
trimStart(s) ==
    IF s # <<>> /\ Head(s) \in WhiteSpace THEN trimStart(Tail(s)) ELSE s
RECURSIVE trimEnd(_)
trimEnd(s) ==
    IF s # <<>> /\ s[Len(s)] \in WhiteSpace
    THEN trimEnd(SubSeq(s, 1, Len(s) - 1)) ELSE s
trim(s) == trimEnd(trimStart(s))

\* String.prototype.includes: scan for sub from offset k (1-based).
RECURSIVE includesFrom(_, _, _)
includesFrom(s, sub, k) ==
    IF k + Len(sub) - 1 > Len(s) THEN FALSE
    ELSE IF SubSeq(s, k, k + Len(sub) - 1) = sub THEN TRUE
    ELSE includesFrom(s, sub, k + 1)
includes(s, sub) == includesFrom(s, sub, 1)

\* An exclusion test that compares the text as written (no toLowerCase).
isExcludedCaseSensitive(text, exclusions) ==
    \E e \in DOMAIN exclusions : includes(text, exclusions[e])

\* source.linkTextExclusions.some((exclusion) =>
\*     text.toLowerCase().includes(exclusion.toLowerCase()))
isExcluded(text, exclusions) ==
    \E e \in DOMAIN exclusions :
        includes(toLowerCase(text), toLowerCase(exclusions[e]))

\* source.jobLinkPatterns.some((pattern) => matchesPattern(href, pattern))
matchesAnyPattern(href, patterns) ==
    \E q \in DOMAIN patterns : matchesPattern(href, patterns[q])

\* The nodes a selector can yield.  hasHref tells whether the element has an
\* href attribute at all; getAttribute("href") is the attribute's value, and
\* null (falsy, like the empty value) when there is none.
Hrefs == {<<>>, <<"a">>, <<"a", "/">>}
Texts == {<<"J">>, <<" ", "x">>, <<"j", " ">>}
Nodes == {[hasHref |-> h, href |-> r, text |-> t] :
            h \in BOOLEAN, r \in Hrefs, t \in Texts} \
         {n \in [hasHref : {FALSE}, href : Hrefs \ {<<>>}, text : Texts] : TRUE}
NodeLists == UNION {[1..n -> Nodes] : n \in 0..MaxNodes}

\* The policies tried: linkSelector is represented by whether the xpath
\* library accepts it (select throws on a selector it cannot parse).
ExclusionLists == {<<>>, << <<"J">> >>, << <<" ">> >>, << <<"q">>, <<"x">> >>}
PatternLists == {<<>>, << <<"*">> >>, << <<"a">> >>, << <<"b">>, <<"a", "*">> >>}

\* select(source.linkSelector, doc) inside try/catch (lines 74-87): the
\* selected nodes, or [] when select throws.
selectNodes(selected, selectorValid) ==
    IF selectorValid THEN selected ELSE <<>>

\* The loop over nodes (lines 102-143), from node k on.
RECURSIVE filterNodes(_, _, _)
filterNodes(nodes, source, k) ==
    IF k > Len(nodes) THEN <<>>
    ELSE LET href == nodes[k].href
             text == trim(nodes[k].text)
             rest == filterNodes(nodes, source, k + 1)
         IN  IF (~nodes[k].hasHref) \/ href = <<>> THEN rest
             ELSE IF isExcluded(text, source.linkTextExclusions) THEN rest
             ELSE IF ~matchesAnyPattern(href, source.jobLinkPatterns) THEN rest
             ELSE <<[url |-> href, text |-> text]>> \o rest

\* extractLinks(html, source): selected is what source.linkSelector yields
\* on the parsed html when the selector is valid.  When select() returns a
\* number, `for (const node of nodes)` throws a TypeError.
extractLinks(selected, selectorValid, source) ==
    IF selectorValid /\ ~source.selectsNodes
    THEN [kind |-> "throw", value |-> <<>>]
    ELSE [kind |-> "return",
          value |-> filterNodes(selectNodes(selected, selectorValid),
                                source, 1)]

VARIABLES
    eSelected,      \* the nodes the selector yields on the document
    eSelectorValid, \* does the xpath library accept source.linkSelector
    eSource,        \* argument source (the policy)
    ePc,            \* "call" | "returned" | "thrown"
    eResult         \* the value returned

extractVars == <<eSelected, eSelectorValid, eSource, ePc, eResult>>

ExtractInit ==
    /\ eSelected \in NodeLists
    /\ eSelectorValid \in BOOLEAN
    /\ eSource \in [linkTextExclusions : ExclusionLists,
                    jobLinkPatterns : PatternLists,
                    selectsNodes : {TRUE}]
    /\ ePc = "call"
    /\ eResult = <<>>

ExtractIdle ==
    /\ eSelected = <<>> /\ eSelectorValid = TRUE
    /\ eSource = [linkTextExclusions |-> <<>>, jobLinkPatterns |-> <<>>,
                  selectsNodes |-> TRUE]
    /\ ePc = "idle" /\ eResult = <<>>

ExtractCall ==
    /\ ePc = "call"
    /\ LET c == extractLinks(eSelected, eSelectorValid, eSource) IN
        /\ ePc' = IF c.kind = "return" THEN "returned" ELSE "thrown"
        /\ eResult' = c.value
    /\ UNCHANGED <<eSelected, eSelectorValid, eSource>>

\* ------------------------------------------------------------------------
\* processJobEmails (index.ts, src/unnamed/part_003:457-751)
\* ------------------------------------------------------------------------
MaxEmails == 2      \* most emails in emailsToProcess
MaxLinks == 2       \* most nodes the selector yields on one email

\* config.jobEmailSources, in configuration order: one policy that follows
\* redirects, one that does not, and one whose linkSelector is an XPath
\* expression of number type (such as count(//a)), for which select()
\* returns a number.  The first sender contains the second, so a From
\* header can hold both.
jobEmailSources == <<
    [emailSender |-> <<"s", "1">>, jobLinkPatterns |-> << <<"a", "*">> >>,
     followJobLink |-> TRUE, linkTextExclusions |-> << <<"q">> >>,
     selectsNodes |-> TRUE],
    [emailSender |-> <<"s">>, jobLinkPatterns |-> << <<"a">> >>,
     followJobLink |-> FALSE, linkTextExclusions |-> <<>>,
     selectsNodes |-> TRUE],
    [emailSender |-> <<"n">>, jobLinkPatterns |-> << <<"*">> >>,
     followJobLink |-> FALSE, linkTextExclusions |-> <<>>,
     selectsNodes |-> FALSE] >>
Sources == {jobEmailSources[k] : k \in DOMAIN jobEmailSources}

\* The last policy whose sender occurs in the From header.
RECURSIVE findSourceLast(_, _)
findSourceLast(from, k) ==
    IF k > Len(jobEmailSources) THEN 0
    ELSE IF findSourceLast(from, k + 1) # 0 THEN findSourceLast(from, k + 1)
    ELSE IF includes(from, jobEmailSources[k].emailSender) THEN k
    ELSE 0
\* config.jobEmailSources.find((s) => from.includes(s.emailSender)): the
\* position of the first policy whose sender occurs in the From header, 0
\* when there is none, looking from position k on.
RECURSIVE findSource(_, _)
findSource(from, k) ==
    IF k > Len(jobEmailSources) THEN 0
    ELSE IF includes(from, jobEmailSources[k].emailSender) THEN k
    ELSE findSource(from, k + 1)

\* The From headers of the mailbox: one that holds the first two senders,
\* one that holds only the second, one that holds the third, one that
\* holds none.
FromHeaders == {<<"s", "1">>, <<"x", "s">>, <<"n">>, <<"z">>}

\* The emails fetched: headers, the nodes the policy's selector yields on
\* the HTML body, and the policy bound to the sender.
EmailNodes == {[hasHref |-> TRUE, href |-> <<"a">>, text |-> <<"J">>],
               [hasHref |-> TRUE, href |-> <<"a", "/">>, text |-> <<" ", "x">>]}
EmailNodeLists == UNION {[1..n -> EmailNodes] : n \in 0..MaxLinks}
Emails ==
    UNION {{[from |-> f, subject |-> sub, date |-> "d1", selected |-> sel,
             source |-> jobEmailSources[findSource(f, 1)]] :
                sub \in {"sub1", "sub2"},
                sel \in IF jobEmailSources[findSource(f, 1)].selectsNodes
                         THEN EmailNodeLists ELSE {<<>>}} :
           f \in {h \in FromHeaders : findSource(h, 1) # 0}}
EmailLists == UNION {[1..n -> Emails] : n \in 0..MaxEmails}

\* The messages gmail.users.messages.get returns: the headers, whether the
\* payload has an HTML body, and the nodes the bound policy's selector
\* yields on it.
Messages ==
    {[from |-> e.from, subject |-> e.subject, date |-> e.date,
      hasHtml |-> TRUE, selected |-> e.selected] : e \in Emails}
    \cup
    {[from |-> <<"s", "1">>, subject |-> "sub1", date |-> "d1",
      hasHtml |-> FALSE, selected |-> <<>>],
     [from |-> <<"z">>, subject |-> "sub1", date |-> "d1",
      hasHtml |-> TRUE, selected |-> <<>>]}
MessageLists == UNION {[1..n -> Messages] : n \in 0..MaxEmails}

VARIABLES
    selectorValid,        \* per policy: does xpath accept its linkSelector
    messageLimit,         \* --message-limit, 0 when not given
    messages,             \* the messages of the mailbox that match the query
    fetchNum,             \* 1-based position in messages of the get in flight
    emailData,            \* the emails fetched and bound to a policy
    effects,              \* history: the kinds of outside calls made so far
    exitCode,             \* -1 while running, then the process exit status
    emailsToProcess,      \* the emails, in input order
    delayBetweenRequests, \* config.delayBetweenRequests (ms)
    emailNum,             \* i + 1 of the loop over emailsToProcess
    extractedLinks,       \* links of the current email
    linkNum,              \* 1-based position in extractedLinks of the probe
    pPc,                  \* "config" | "authorize" | "list" | "fetch" |
                          \* "loop" | "probe" | "delay" | "done" | "exit"
    allJobListings,       \* the run's output
    reported,             \* console.warn / console.error lines of the loop
    probeLog,             \* history: every probe that returned
    extractLog            \* history: every call of extractLinks

preludeVars == <<selectorValid, messageLimit, messages, fetchNum, emailData,
                 exitCode>>

pipeVars == <<preludeVars, effects, emailsToProcess, delayBetweenRequests,
              emailNum, extractedLinks, linkNum, pPc, allJobListings, reported,
              probeLog, extractLog>>

PipeInit ==
    /\ selectorValid \in [DOMAIN jobEmailSources -> BOOLEAN]
    /\ messageLimit \in {0, 1}
    /\ messages \in MessageLists
    /\ fetchNum = 0
    /\ emailData = <<>>
    /\ effects = {}
    /\ exitCode = -1
    /\ emailsToProcess = <<>>
    /\ delayBetweenRequests \in {0, 1000}
    /\ emailNum = 1
    /\ extractedLinks = <<>>
    /\ linkNum = 0
    /\ pPc = "config"
    /\ allJobListings = <<>>
    /\ reported = <<>>
    /\ probeLog = <<>>
    /\ extractLog = <<>>

PipeIdle ==
    /\ selectorValid = [k \in DOMAIN jobEmailSources |-> TRUE]
    /\ messageLimit = 0 /\ messages = <<>> /\ fetchNum = 0 /\ emailData = <<>>
    /\ effects = {} /\ exitCode = -1
    /\ emailsToProcess = <<>> /\ delayBetweenRequests = 0 /\ emailNum = 1
    /\ extractedLinks = <<>> /\ linkNum = 0 /\ pPc = "idle"
    /\ allJobListings = <<>> /\ reported = <<>> /\ probeLog = <<>>
    /\ extractLog = <<>>

\* loadConfig that tests the selector of the first policy only.
invalidSelectorFirstOnly(valid) == ~valid[1]

\* loadConfig, lines 465-484: the loop over config.jobEmailSources finds a
\* linkSelector that select() throws on.
invalidSelector(valid) == \E k \in DOMAIN valid : ~valid[k]

\* processJobEmails up to `await authorize()` (lines 528-543): loadConfig
\* validates the selectors and calls process.exit(1) on the first invalid
\* one; otherwise authorize is called.
LoadConfig ==
    /\ pPc = "config"
    /\ IF invalidSelector(selectorValid)
       THEN /\ pPc' = "exit"
            /\ exitCode' = 1
            /\ UNCHANGED effects
       ELSE /\ pPc' = "authorize"
            /\ effects' = effects \cup {"authorize"}
            /\ UNCHANGED exitCode
    /\ UNCHANGED <<selectorValid, messageLimit, messages, fetchNum, emailData,
                   emailsToProcess, delayBetweenRequests, emailNum,
                   extractedLinks, linkNum, allJobListings, reported, probeLog,
                   extractLog>>

\* authorize() settles (lines 543-555): on success messages.list is
\* called; a rejection goes to the catch of lines 747-750, exit status 1.
AuthorizeReturns ==
    /\ pPc = "authorize"
    /\ \E ok \in BOOLEAN :
        IF ok THEN /\ pPc' = "list"
                   /\ effects' = effects \cup {"list"}
                   /\ UNCHANGED exitCode
        ELSE /\ pPc' = "exit"
             /\ exitCode' = 1
             /\ UNCHANGED effects
    /\ UNCHANGED <<selectorValid, messageLimit, messages, fetchNum, emailData,
                   emailsToProcess, delayBetweenRequests, emailNum,
                   extractedLinks, linkNum, allJobListings, reported, probeLog,
                   extractLog>>

\* messages.list settles (lines 551-585): return when there is no message,
\* else the first messages.get is called.
ListReturns ==
    /\ pPc = "list"
    /\ IF messages = <<>>
       THEN /\ pPc' = "done"
            /\ exitCode' = 0
            /\ UNCHANGED <<fetchNum, effects>>
       ELSE /\ pPc' = "fetch"
            /\ fetchNum' = 1
            /\ effects' = effects \cup {"get"}
            /\ UNCHANGED exitCode
    /\ UNCHANGED <<selectorValid, messageLimit, messages, emailData,
                   emailsToProcess, delayBetweenRequests, emailNum,
                   extractedLinks, linkNum, allJobListings, reported, probeLog,
                   extractLog>>

\* What one iteration of the fetch loop adds to emailData (lines 587-615):
\* nothing for a message without HTML body or without a policy for its From
\* header, else the email bound to the first policy found.
bindEmail(data, msg) ==
    IF ~msg.hasHtml THEN data
    ELSE IF findSource(msg.from, 1) = 0 THEN data
    ELSE Append(data, [from |-> msg.from, subject |-> msg.subject,
                       date |-> msg.date, selected |-> msg.selected,
                       source |-> jobEmailSources[findSource(msg.from, 1)]])

\* messageLimit ? emailData.slice(0, messageLimit) : emailData
limitEmails(data, limit) == IF limit # 0 THEN Slice(data, 0, limit) ELSE data

\* messages.get settles (lines 581-633): the message is bound and the next
\* get is called, or after the last message the extraction loop is
\* entered; a rejection goes to the catch of lines 747-750.
GetReturns ==
    /\ pPc = "fetch"
    /\ \E ok \in BOOLEAN :
        IF ~ok
        THEN /\ pPc' = "exit"
             /\ exitCode' = 1
             /\ UNCHANGED <<fetchNum, emailData, emailsToProcess>>
        ELSE /\ emailData' = bindEmail(emailData, messages[fetchNum])
             /\ UNCHANGED exitCode
             /\ IF fetchNum < Len(messages)
                THEN /\ fetchNum' = fetchNum + 1
                     /\ UNCHANGED <<pPc, emailsToProcess>>
                ELSE /\ pPc' = "loop"
                     /\ emailsToProcess' = limitEmails(emailData', messageLimit)
                     /\ UNCHANGED fetchNum
    /\ UNCHANGED <<selectorValid, messageLimit, messages, effects,
                   delayBetweenRequests, emailNum, extractedLinks, linkNum,
                   allJobListings, reported, probeLog, extractLog>>

\* The position in config.jobEmailSources of a policy.
policyIndex(source) ==
    CHOOSE k \in DOMAIN jobEmailSources : jobEmailSources[k] = source

\* The JobListing pushed for a link of an email (lines 667-673, 688-694).
jobListing(email, link, jobLink) ==
    [emailFrom |-> email.from, emailSubject |-> email.subject,
     emailDate |-> email.date, jobTitle |-> link.text, jobLink |-> jobLink]

passThroughFirstOnly(email, links) ==
    <<jobListing(email, links[1], links[1].url)>>
\* The else branch, lines 685-696: one listing per link, original URL.
passThrough(email, links) ==
    [k \in 1..Len(links) |-> jobListing(email, links[k], links[k].url)]

afterProbePrepend(listings, email, link, result) ==
    IF result.success
    THEN <<jobListing(email, link, result.finalUrl)>> \o listings
    ELSE listings
\* What the loop does with the result of followRedirects (lines 666-676):
\* the listings after it.
afterProbe(listings, email, link, result) ==
    IF result.success
    THEN Append(listings, jobListing(email, link, result.finalUrl))
    ELSE listings

\* Where the catch of lines 699-705 leaves the run: in the loop.
emailErrorPcAbort == "exit"
emailErrorPc == "loop"

\* One iteration of the loop over emailsToProcess up to its first await:
\* extractLinks, then `continue` on no links, or the first followRedirects
\* call, or the pass-through of every link; an exception goes to the catch
\* of lines 699-705.
ProcessEmail ==
    /\ pPc = "loop"
    /\ emailNum <= Len(emailsToProcess)
    /\ LET email == emailsToProcess[emailNum]
           c == extractLinks(email.selected,
                             selectorValid[policyIndex(email.source)],
                             email.source)
           follows == c.kind = "return" /\ c.value # <<>>
                        /\ email.source.followJobLink
       IN  /\ effects' = effects \cup {"extract"}
                            \cup (IF follows THEN {"probe"} ELSE {})
           /\ extractLog' = Append(extractLog,
                  [email |-> emailNum, source |-> email.source,
                   kind |-> c.kind, links |-> c.value])
           /\ IF c.kind = "throw"
              THEN /\ reported' = Append(reported,
                           [level |-> "error", email |-> emailNum, text |-> <<>>])
                   /\ emailNum' = emailNum + 1
                   /\ pPc' = emailErrorPc
                   /\ UNCHANGED <<extractedLinks, linkNum, allJobListings>>
              ELSE IF c.value = <<>>
              THEN /\ emailNum' = emailNum + 1
                   /\ extractedLinks' = <<>>
                   /\ UNCHANGED <<linkNum, pPc, allJobListings, reported>>
              ELSE IF email.source.followJobLink
              THEN /\ extractedLinks' = c.value
                   /\ linkNum' = 1
                   /\ pPc' = "probe"
                   /\ UNCHANGED <<emailNum, allJobListings, reported>>
              ELSE /\ extractedLinks' = c.value
                   /\ allJobListings' = allJobListings \o passThrough(email, c.value)
                   /\ emailNum' = emailNum + 1
                   /\ UNCHANGED <<linkNum, pPc, reported>>
    /\ UNCHANGED <<emailsToProcess, delayBetweenRequests, probeLog>>
    /\ UNCHANGED preludeVars

\* Move on after a link: the next followRedirects call, or the next email.
nextLinkPc == IF linkNum < Len(extractedLinks) THEN "probe" ELSE "loop"

\* `await followRedirects(link.url)` returns: push the listing or warn,
\* then wait delayBetweenRequests if it is positive (lines 664-683).  Were
\* the call to throw, the catch of lines 699-705 would end the email.
ProbeReturns ==
    /\ pPc = "probe"
    /\ LET email == emailsToProcess[emailNum]
           link == extractedLinks[linkNum]
           more == linkNum < Len(extractedLinks)
       IN  \E fetched \in FetchOutcomes(link.url) :
            LET c == followRedirects(link.url, FALSE, fetched) IN
            IF c.kind = "throw"
            THEN /\ reported' = Append(reported,
                        [level |-> "error", email |-> emailNum, text |-> <<>>])
                 /\ emailNum' = emailNum + 1
                 /\ linkNum' = 0
                 /\ pPc' = "loop"
                 /\ UNCHANGED <<allJobListings, probeLog>>
            ELSE /\ allJobListings' =
                        afterProbe(allJobListings, email, link, c.value)
                 /\ reported' = IF c.value.success THEN reported
                                ELSE Append(reported,
                                       [level |-> "warn", email |-> emailNum,
                                        text |-> link.text])
                 /\ probeLog' = Append(probeLog,
                                  [email |-> emailNum, link |-> link,
                                   success |-> c.value.success,
                                   finalUrl |-> c.value.finalUrl])
                 /\ IF delayBetweenRequests > 0
                    THEN pPc' = "delay" /\ UNCHANGED <<emailNum, linkNum>>
                    ELSE /\ pPc' = nextLinkPc
                         /\ linkNum' = IF more THEN linkNum + 1 ELSE 0
                         /\ emailNum' = IF more THEN emailNum ELSE emailNum + 1
    /\ UNCHANGED <<emailsToProcess, delayBetweenRequests, extractedLinks>>
    /\ UNCHANGED <<preludeVars, effects, extractLog>>

\* The setTimeout of lines 679-683 fires.
DelayElapsed ==
    /\ pPc = "delay"
    /\ pPc' = nextLinkPc
    /\ linkNum' = IF linkNum < Len(extractedLinks) THEN linkNum + 1 ELSE 0
    /\ emailNum' = IF linkNum < Len(extractedLinks) THEN emailNum
                   ELSE emailNum + 1
    /\ UNCHANGED <<emailsToProcess, delayBetweenRequests, extractedLinks,
                   allJobListings, reported, probeLog>>
    /\ UNCHANGED <<preludeVars, effects, extractLog>>

\* The loop over emailsToProcess ends (line 706); the results are printed
\* and the process ends normally.
LoopEnd ==
    /\ pPc = "loop"
    /\ emailNum > Len(emailsToProcess)
    /\ pPc' = "done"
    /\ exitCode' = 0
    /\ UNCHANGED <<emailsToProcess, delayBetweenRequests, emailNum,
                   extractedLinks, linkNum, allJobListings, reported, probeLog,
                   extractLog>>
    /\ UNCHANGED <<selectorValid, messageLimit, messages, fetchNum, emailData,
                   effects>>

PipeNext ==
    \/ LoadConfig \/ AuthorizeReturns \/ ListReturns \/ GetReturns
    \/ ProcessEmail \/ ProbeReturns \/ DelayElapsed \/ LoopEnd

\* ------------------------------------------------------------------------
\* The batch planner: countTokens, getModelTokenLimit and
\* calculateOptimalBatchSize (openai.ts)
\* ------------------------------------------------------------------------
MaxPlanEmails == 6  \* longest email list handed to calculateOptimalBatchSize

MODEL_TOKEN_LIMITS ==
    ("gpt-5" :> 400000) @@ ("gpt-5-mini" :> 400000) @@
    ("gpt-5-nano" :> 250000) @@ ("gpt-5-pro" :> 400000)
RESERVED_TOKENS == 10000
DefaultTokenLimit == 128000
SampleLimit == 5

\* Model identifiers handed to the planner: the four of the table and two
\* the table does not know.
ModelIds == DOMAIN MODEL_TOKEN_LIMITS \cup {"gpt-4o", ""}

\* MODEL_TOKEN_LIMITS[model] || 128000: a missing entry is undefined, which
\* is falsy, as a zero entry would be.
getModelTokenLimitNoDefault(model) ==
    IF model \in DOMAIN MODEL_TOKEN_LIMITS THEN MODEL_TOKEN_LIMITS[model]
    ELSE 0
getModelTokenLimit(model) ==
    IF model \in DOMAIN MODEL_TOKEN_LIMITS /\ MODEL_TOKEN_LIMITS[model] # 0
    THEN MODEL_TOKEN_LIMITS[model]
    ELSE DefaultTokenLimit

\* A text handed to countTokens is known by its length in characters and by
\* the number of tokens the tiktoken encoder finds in it.
PlanTexts == {[chars |-> 3999, tokens |-> 900],
              [chars |-> 600001, tokens |-> 140000]}
\* The fixed prompt of calculateOptimalBatchSize: 663 characters.
promptText == [chars |-> 663, tokens |-> 150]

countTokensFloor(text, encoderWorks) ==
    IF encoderWorks THEN text.tokens ELSE text.chars \div 4
\* countTokens: the encoder's count, or Math.ceil(text.length / 4) when the
\* encoder throws.
countTokens(text, encoderWorks) ==
    IF encoderWorks THEN text.tokens ELSE (text.chars + 3) \div 4

PlanLists == UNION {[1..n -> PlanTexts] : n \in 0..MaxPlanEmails}
PlanTails == UNION {[1..n -> PlanTexts] : n \in 0..1}
MaxBatchSizes == {-1, 0, 2, 20}

sampleSizeAll(n) == n
sampleSize(n) == Min(SampleLimit, n)

totalTokensFirstOnly(emails, k, encoderWorks) ==
    countTokens(emails[1], encoderWorks)
\* totalTokens after the loop over the first k emails.
RECURSIVE totalTokens(_, _, _)
totalTokens(emails, k, encoderWorks) ==
    IF k = 0 THEN 0
    ELSE totalTokens(emails, k - 1, encoderWorks)
             + countTokens(emails[k], encoderWorks)

earlyReturnDefault(maxBatchSize) == 20
earlyReturn(maxBatchSize) == maxBatchSize

optimalNoFloor(calculated, maxBatchSize) == Min(calculated, maxBatchSize)
optimalNoCeiling(calculated, maxBatchSize) == Max(1, calculated)
optimalBatchSize(calculated, maxBatchSize) ==
    Max(1, Min(calculated, maxBatchSize))

\* calculateOptimalBatchSize.  The result carries, next to the returned
\* value, the locals the function logs and the number of countTokens calls
\* it made.  avgTokensPerEmail is totalTokens / sampleSize, so
\* floor((available - overhead) / avg) is the integer quotient
\* ((available - overhead) * sampleSize) \div totalTokens.
calculateOptimalBatchSize(emails, model, maxBatchSize, encoderWorks) ==
    IF Len(emails) = 0
    THEN [value |-> earlyReturn(maxBatchSize), calculated |-> 0,
          sampled |-> 0, countCalls |-> 0]
    ELSE
      LET modelLimit      == getModelTokenLimit(model)
          availableTokens == modelLimit - RESERVED_TOKENS
          n               == sampleSize(Len(emails))
          total           == totalTokens(emails, n, encoderWorks)
          promptOverhead  == countTokens(promptText, encoderWorks)
          calculated      == ((availableTokens - promptOverhead) * n) \div total
      IN  [value |-> optimalBatchSize(calculated, maxBatchSize),
           calculated |-> calculated, sampled |-> n, countCalls |-> n + 1]

VARIABLES planEmails, otherEmails, planModel, maxBatchSize, encoderWorks,
          planPc, planResult, otherPc, otherResult, limitPc, limitResult
planVars == <<planEmails, otherEmails, planModel, maxBatchSize, encoderWorks,
              planPc, planResult, otherPc, otherResult, limitPc, limitResult>>

NoPlan == [value |-> 0, calculated |-> 0, sampled |-> 0, countCalls |-> 0]

\* One call of calculateOptimalBatchSize and one of getModelTokenLimit.
PlanInit ==
    /\ planEmails \in PlanLists
    /\ otherEmails = <<>>
    /\ planModel \in ModelIds
    /\ maxBatchSize \in MaxBatchSizes
    /\ encoderWorks \in BOOLEAN
    /\ planPc = "call" /\ planResult = NoPlan
    /\ otherPc = "idle" /\ otherResult = NoPlan
    /\ limitPc = "call" /\ limitResult = 0

\* Two calls of calculateOptimalBatchSize with the same model and ceiling:
\* the second list keeps a leading part of the first and replaces the rest.
PlanPairInit ==
    /\ planEmails \in PlanLists
    /\ otherEmails \in {SubSeq(planEmails, 1, k) \o t :
                           k \in 0..Len(planEmails), t \in PlanTails}
    /\ planModel \in ModelIds
    /\ maxBatchSize \in MaxBatchSizes
    /\ encoderWorks \in BOOLEAN
    /\ planPc = "call" /\ planResult = NoPlan
    /\ otherPc = "call" /\ otherResult = NoPlan
    /\ limitPc = "idle" /\ limitResult = 0

PlanIdle ==
    /\ planEmails = <<>> /\ otherEmails = <<>>
    /\ planModel = "" /\ maxBatchSize = 20 /\ encoderWorks = TRUE
    /\ planPc = "idle" /\ planResult = NoPlan
    /\ otherPc = "idle" /\ otherResult = NoPlan
    /\ limitPc = "idle" /\ limitResult = 0

PlanCall ==
    /\ planPc = "call"
    /\ planResult' = calculateOptimalBatchSize(planEmails, planModel,
                                               maxBatchSize, encoderWorks)
    /\ planPc' = "returned"
    /\ UNCHANGED <<planEmails, otherEmails, planModel, maxBatchSize,
                   encoderWorks, otherPc, otherResult, limitPc, limitResult>>

PlanCallOther ==
    /\ otherPc = "call"
    /\ otherResult' = calculateOptimalBatchSize(otherEmails, planModel,
                                                maxBatchSize, encoderWorks)
    /\ otherPc' = "returned"
    /\ UNCHANGED <<planEmails, otherEmails, planModel, maxBatchSize,
                   encoderWorks, planPc, planResult, limitPc, limitResult>>

LimitCall ==
    /\ limitPc = "call"
    /\ limitResult' = getModelTokenLimit(planModel)
    /\ limitPc' = "returned"
    /\ UNCHANGED <<planEmails, otherEmails, planModel, maxBatchSize,
                   encoderWorks, planPc, planResult, otherPc, otherResult>>

PlanNext == PlanCall \/ LimitCall
PlanPairNext == PlanCall \/ PlanCallOther

\* ------------------------------------------------------------------------
\* The model-assisted extractor: the response handling of
\* extractJobListings (openai.ts)
\* ------------------------------------------------------------------------
MaxJobs == 2        \* longest array in a model response

\* Listing-shaped records a response may carry.
JobRecords == {"J1", "J2"}

\* JSON values.  A field of an object that is absent reads as undefined.
JUndefined == [type |-> "undefined", n |-> 0, items |-> <<>>]
JNull == [type |-> "null", n |-> 0, items |-> <<>>]
JNumber(k) == [type |-> "number", n |-> k, items |-> <<>>]
JArray(items) == [type |-> "array", n |-> 0, items |-> items]
JArrays == {JArray(items) : items \in UNION {[1..k -> JobRecords] : k \in 0..MaxJobs}}
JobsFieldValues == {JUndefined, JNull, JNumber(0), JNumber(42)} \cup JArrays
ListingsFieldValues == {JUndefined} \cup JArrays
JObjects ==
    {[type |-> "object", jobs |-> j, listings |-> l] :
        j \in JobsFieldValues, l \in ListingsFieldValues}
JsonValues == {JNull, JNumber(0), JNumber(42)} \cup JArrays \cup JObjects

\* response.choices[0].message.content: null, the empty string, a text
\* that is not JSON, or the text of a JSON value.
ResultTexts ==
    {[kind |-> k, value |-> JNull] : k \in {"null", "empty", "garbage"}}
        \cup {[kind |-> "json", value |-> v] : v \in JsonValues}

\* JSON.parse: the value of a JSON text, a SyntaxError for any other text.
JSONparse(text) ==
    IF text.kind = "json" THEN [ok |-> TRUE, value |-> text.value]
    ELSE [ok |-> FALSE, value |-> JNull]

\* JavaScript truthiness of a field value.
truthy(v) ==
    CASE v.type \in {"undefined", "null"} -> FALSE
      [] v.type = "number" -> v.n # 0
      [] OTHER -> TRUE

Throw(message) == [kind |-> "throw", message |-> message, value |-> JNull]
Return(v) == [kind |-> "return", message |-> "", value |-> v]

\* Array.isArray(parsed) ? parsed : parsed.jobs || []
\* (reading .jobs of null is a TypeError, of a number undefined).
selectJobsArrayOnly(parsed) ==
    IF parsed.type = "array" THEN Return(parsed)
    ELSE IF parsed.type = "null" THEN Throw("TypeError")
    ELSE Return(JArray(<<>>))
selectJobs(parsed) ==
    IF parsed.type = "array" THEN Return(parsed)
    ELSE IF parsed.type = "null" THEN Throw("TypeError")
    ELSE IF parsed.type = "object" /\ truthy(parsed.jobs)
         THEN Return(parsed.jobs)
    ELSE Return(JArray(<<>>))

\* extractJobListings from the arrival of the response on.
extractJobListings(resultText) ==
    IF resultText.kind \in {"null", "empty"}
    THEN Throw("No response from ChatGPT")
    ELSE
      LET parsed == JSONparse(resultText)
      IN  IF ~parsed.ok THEN Throw("Invalid JSON response from ChatGPT")
          ELSE LET jobs == selectJobs(parsed.value)
               IN  IF jobs.kind = "throw"
                   THEN Throw("Invalid JSON response from ChatGPT")
                   ELSE jobs

VARIABLES resultText, otherText, parsePc, jobListings, otherParsePc, otherListings
parseVars == <<resultText, otherText, parsePc, jobListings, otherParsePc, otherListings>>

NoListings == Return(JUndefined)

\* Two calls of extractJobListings, each with its own response.
ParseInit ==
    /\ resultText \in ResultTexts
    /\ otherText \in ResultTexts
    /\ parsePc = "call" /\ jobListings = NoListings
    /\ otherParsePc = "call" /\ otherListings = NoListings

ParseIdle ==
    /\ resultText = [kind |-> "null", value |-> JNull]
    /\ otherText = [kind |-> "null", value |-> JNull]
    /\ parsePc = "idle" /\ jobListings = NoListings
    /\ otherParsePc = "idle" /\ otherListings = NoListings

ParseCall ==
    /\ parsePc = "call"
    /\ jobListings' = extractJobListings(resultText)
    /\ parsePc' = "returned"
    /\ UNCHANGED <<resultText, otherText, otherParsePc, otherListings>>

ParseCallOther ==
    /\ otherParsePc = "call"
    /\ otherListings' = extractJobListings(otherText)
    /\ otherParsePc' = "returned"
    /\ UNCHANGED <<resultText, otherText, parsePc, jobListings>>

ParseNext == ParseCall \/ ParseCallOther

\* ------------------------------------------------------------------------
\* The model-assisted run: the batch loop of listJobEmails (index.ts)
\* ------------------------------------------------------------------------
MaxAssistEmails == 3    \* most emails fetched in a model-assisted run

\* At least one message was found (the run returns before fetching otherwise).
AssistLists == UNION {[1..n -> PlanTexts] : n \in 1..MaxAssistEmails}
ConfigBatchSizes == {0, 1, 2}       \* config.batchSize, 0 when it is not set
AssistModels == {"gpt-5-nano", "gpt-4o"}
DefaultBatchSize == 20

\* The responses the model may give to a batch.
AssistResponses ==
    {[kind |-> "garbage", value |-> JNull],
     [kind |-> "empty", value |-> JNull],
     [kind |-> "json", value |-> JArray(<<"J1">>)],
     [kind |-> "json",
      value |-> [type |-> "object", jobs |-> JArray(<<"J2">>),
                 listings |-> JUndefined]],
     [kind |-> "json",
      value |-> [type |-> "object", jobs |-> JNumber(42),
                 listings |-> JUndefined]]}

VARIABLES assistEmails, configBatchSize, assistModel, assistEncoder,
          batchSize, batchStart, assistListings, sent, displayed,
          assistPc, assistExit
assistVars == <<assistEmails, configBatchSize, assistModel, assistEncoder,
                batchSize, batchStart, assistListings, sent, displayed,
                assistPc, assistExit>>

\* The run after the emails have been fetched.
AssistInit ==
    /\ assistEmails \in AssistLists
    /\ configBatchSize \in ConfigBatchSizes
    /\ assistModel \in AssistModels
    /\ assistEncoder \in BOOLEAN
    /\ batchSize = 0 /\ batchStart = 0
    /\ assistListings = <<>> /\ sent = <<>> /\ displayed = <<>>
    /\ assistPc = "plan" /\ assistExit = -1

AssistIdle ==
    /\ assistEmails = <<>> /\ configBatchSize = 0
    /\ assistModel = "" /\ assistEncoder = TRUE
    /\ batchSize = 0 /\ batchStart = 0
    /\ assistListings = <<>> /\ sent = <<>> /\ displayed = <<>>
    /\ assistPc = "idle" /\ assistExit = -1

\* config.batchSize || 20, calculateOptimalBatchSize, and the loop's start.
PlanBatches ==
    /\ assistPc = "plan"
    /\ batchSize' =
           calculateOptimalBatchSize(
               assistEmails, assistModel,
               IF configBatchSize = 0 THEN DefaultBatchSize
               ELSE configBatchSize,
               assistEncoder).value
    /\ batchStart' = 0
    /\ assistPc' = "loop"
    /\ UNCHANGED <<assistEmails, configBatchSize, assistModel, assistEncoder,
                   assistListings, sent, displayed, assistExit>>

\* What the arrival of a response does to the log entry of its request.
settleNever(entry, ok, items) ==
    [entry EXCEPT !.ok = ok, !.items = items]
settle(entry, ok, items) ==
    [entry EXCEPT !.ok = ok, !.items = items,
                  !.state = IF ok THEN "returned" ELSE "failed"]

\* The index the loop continues with: i += batchSize.
nextStart(start, size) == start + size

\* One pass of the loop up to the await: the batch
\* emailData.slice(i, i + batchSize) is sent to the model.
SendBatch ==
    /\ assistPc = "loop"
    /\ batchStart < Len(assistEmails)
    /\ sent' = Append(sent,
           [from |-> batchStart,
            batch |-> Slice(assistEmails, batchStart, batchStart + batchSize),
            state |-> "inflight", ok |-> FALSE, items |-> <<>>])
    /\ assistPc' = "await"
    /\ UNCHANGED <<assistEmails, configBatchSize, assistModel, assistEncoder,
                   batchSize, batchStart, assistListings, displayed,
                   assistExit>>

\* The rest of the pass: the response is handled by extractJobListings and
\* its listings pushed (spreading a value that is not an array is a
\* TypeError).  The loop has no handler of its own: an error reaches the
\* catch of listJobEmails, which exits with status 1.
BatchReturns ==
    /\ assistPc = "await"
    /\ \E text \in AssistResponses :
         LET jobs == extractJobListings(text)
             ok   == jobs.kind = "return" /\ jobs.value.type = "array"
             got  == IF ok THEN jobs.value.items ELSE <<>>
         IN  /\ sent' = [sent EXCEPT ![Len(sent)] = settle(@, ok, got)]
             /\ IF ok
                THEN /\ assistListings' = assistListings \o got
                     /\ batchStart' = nextStart(batchStart, batchSize)
                     /\ assistPc' = "loop"
                     /\ assistExit' = assistExit
                ELSE /\ assistPc' = "exit"
                     /\ assistExit' = 1
                     /\ UNCHANGED <<assistListings, batchStart>>
    /\ UNCHANGED <<assistEmails, configBatchSize, assistModel, assistEncoder,
                   batchSize, displayed>>

\* The loop has ended: the listings are displayed and the run returns.
DisplayResults ==
    /\ assistPc = "loop"
    /\ batchStart >= Len(assistEmails)
    /\ displayed' = assistListings
    /\ assistPc' = "done"
    /\ assistExit' = 0
    /\ UNCHANGED <<assistEmails, configBatchSize, assistModel, assistEncoder,
                   batchSize, batchStart, assistListings, sent>>

AssistNext == PlanBatches \/ SendBatch \/ BatchReturns \/ DisplayResults

\* ------------------------------------------------------------------------
\* The per-email model-assisted run: the request loop of the first
\* listJobEmails (index.ts), run without --debug-prompts
\* ------------------------------------------------------------------------
MaxSingleEmails == 3    \* most emails fetched in a per-email run

SingleLists == UNION {[1..n -> PlanTexts] : n \in 1..MaxSingleEmails}
RequestDelays == {0, 1000}          \* config.delayBetweenRequests

\* What one call of extractJobListings may end in: the listings of the
\* email, or an error.
RequestOutcomes ==
    {[kind |-> "return", jobs |-> <<"J1">>],
     [kind |-> "return", jobs |-> <<>>],
     [kind |-> "throw", jobs |-> <<>>]}

VARIABLES singleEmails, requestDelay, singleIndex, singleListings,
          singleLog, singleShown, singlePc
singleVars == <<singleEmails, requestDelay, singleIndex, singleListings,
                singleLog, singleShown, singlePc>>

\* The run after the emails have been fetched.
SingleInit ==
    /\ singleEmails \in SingleLists
    /\ requestDelay \in RequestDelays
    /\ singleIndex = 0
    /\ singleListings = <<>> /\ singleLog = <<>> /\ singleShown = <<>>
    /\ singlePc = "loop"

SingleIdle ==
    /\ singleEmails = <<>> /\ requestDelay = 0 /\ singleIndex = 0
    /\ singleListings = <<>> /\ singleLog = <<>> /\ singleShown = <<>>
    /\ singlePc = "idle"

Event(ev, k) == [ev |-> ev, email |-> k]

\* One pass of the loop up to the await: the request for email i is sent.
RequestEmail ==
    /\ singlePc = "loop"
    /\ singleIndex < Len(singleEmails)
    /\ singleLog' = Append(singleLog, Event("request", singleIndex))
    /\ singlePc' = "await"
    /\ UNCHANGED <<singleEmails, requestDelay, singleIndex, singleListings,
                   singleShown>>

\* The wait the try block ends with: after a request that is not the last,
\* when the configured delay is positive.
delayFollows(k, n, delay) == k < n - 1 /\ delay > 0

\* The rest of the try block, or the catch block: the listings are pushed
\* and the delay begun, or the error is reported and the loop goes on.
EmailReturns ==
    /\ singlePc = "await"
    /\ \E c \in RequestOutcomes :
         IF c.kind = "return"
         THEN /\ singleLog' = Append(singleLog, Event("returned", singleIndex))
              /\ singleListings' = singleListings \o c.jobs
              /\ IF delayFollows(singleIndex, Len(singleEmails), requestDelay)
                 THEN singlePc' = "delay" /\ singleIndex' = singleIndex
                 ELSE singlePc' = "loop" /\ singleIndex' = singleIndex + 1
         ELSE /\ singleLog' = Append(singleLog, Event("failed", singleIndex))
              /\ singleListings' = singleListings
              /\ singlePc' = "loop"
              /\ singleIndex' = singleIndex + 1
    /\ UNCHANGED <<singleEmails, requestDelay, singleShown>>

\* The timer of the delay fires and the loop goes on.
RequestDelayElapsed ==
    /\ singlePc = "delay"
    /\ singleLog' = Append(singleLog, Event("delay", singleIndex))
    /\ singleIndex' = singleIndex + 1
    /\ singlePc' = "loop"
    /\ UNCHANGED <<singleEmails, requestDelay, singleListings, singleShown>>

\* The loop has ended: the listings are displayed and the run returns.
ShowResults ==
    /\ singlePc = "loop"
    /\ singleIndex >= Len(singleEmails)
    /\ singleShown' = singleListings
    /\ singlePc' = "done"
    /\ UNCHANGED <<singleEmails, requestDelay, singleIndex, singleListings,
                   singleLog>>

SingleNext ==
    RequestEmail \/ EmailReturns \/ RequestDelayElapsed \/ ShowResults

\* ------------------------------------------------------------------------
\* countTokens on its own (openai.ts)
\* ------------------------------------------------------------------------
MaxTextChars == 12  \* longest text handed to countTokens

\* Texts by length and encoder count: the empty text has no token, any
\* other between one token and one per character.
CountTexts ==
    {[chars |-> 0, tokens |-> 0]} \cup
    UNION {{[chars |-> c, tokens |-> t] : t \in 1..c} : c \in 1..MaxTextChars}

VARIABLES countText, countEncoderWorks, countPc, countResult
countVars == <<countText, countEncoderWorks, countPc, countResult>>

CountInit ==
    /\ countText \in CountTexts
    /\ countEncoderWorks \in BOOLEAN
    /\ countPc = "call"
    /\ countResult = -1

CountIdle ==
    /\ countText = [chars |-> 0, tokens |-> 0]
    /\ countEncoderWorks = TRUE
    /\ countPc = "idle"
    /\ countResult = -1

\* countTokens returns: from the try block, or from the catch block when
\* encoding_for_model or encode threw.
CountCall ==
    /\ countPc = "call"
    /\ countResult' = countTokens(countText, countEncoderWorks)
    /\ countPc' = "returned"
    /\ UNCHANGED <<countText, countEncoderWorks>>

\* ------------------------------------------------------------------------
\* Specifications
\* ------------------------------------------------------------------------
vars ==
    <<batchVars, matchVars, extractVars, pipeVars, planVars, parseVars,
    assistVars, singleVars, countVars>>

\* One call of followRedirectsBatch.
Init ==
    /\ BatchInit
    /\ MatchIdle /\ ExtractIdle /\ PipeIdle /\ PlanIdle
    /\ ParseIdle /\ AssistIdle /\ SingleIdle /\ CountIdle
Next ==
    /\ BatchNext
    /\ UNCHANGED
         <<matchVars, extractVars, pipeVars, planVars, parseVars,
         assistVars, singleVars, countVars>>
Spec == Init /\ [][Next]_vars

\* The same call when every probe settles and the event loop runs every
\* continuation that is ready.
FairSpec == Spec /\ WF_vars(Next)

\* One call of matchesPattern.
InitMatch ==
    /\ MatchInit
    /\ BatchIdle /\ ExtractIdle /\ PipeIdle /\ PlanIdle
    /\ ParseIdle /\ AssistIdle /\ SingleIdle /\ CountIdle
NextMatch ==
    /\ MatchCall
    /\ UNCHANGED
         <<batchVars, extractVars, pipeVars, planVars, parseVars,
         assistVars, singleVars, countVars>>
SpecMatch == InitMatch /\ [][NextMatch]_vars

\* One call of extractLinks.
InitExtract ==
    /\ ExtractInit
    /\ BatchIdle /\ MatchIdle /\ PipeIdle /\ PlanIdle
    /\ ParseIdle /\ AssistIdle /\ SingleIdle /\ CountIdle
NextExtract ==
    /\ ExtractCall
    /\ UNCHANGED
         <<batchVars, matchVars, pipeVars, planVars, parseVars, assistVars,
         singleVars, countVars>>
SpecExtract == InitExtract /\ [][NextExtract]_vars

\* One run of processJobEmails.
InitPipeline ==
    /\ PipeInit
    /\ BatchIdle /\ MatchIdle /\ ExtractIdle /\ PlanIdle
    /\ ParseIdle /\ AssistIdle /\ SingleIdle /\ CountIdle
NextPipeline ==
    /\ PipeNext
    /\ UNCHANGED
         <<batchVars, matchVars, extractVars, planVars, parseVars,
         assistVars, singleVars, countVars>>
SpecPipeline == InitPipeline /\ [][NextPipeline]_vars

\* One call of calculateOptimalBatchSize and one of getModelTokenLimit.
InitPlan ==
    /\ PlanInit
    /\ BatchIdle /\ MatchIdle /\ ExtractIdle /\ PipeIdle
    /\ ParseIdle /\ AssistIdle /\ SingleIdle /\ CountIdle
NextPlan ==
    /\ PlanNext
    /\ UNCHANGED
         <<batchVars, matchVars, extractVars, pipeVars, parseVars,
         assistVars, singleVars, countVars>>
SpecPlan == InitPlan /\ [][NextPlan]_vars

\* Two calls of calculateOptimalBatchSize on related lists.
InitPlanPair ==
    /\ PlanPairInit
    /\ BatchIdle /\ MatchIdle /\ ExtractIdle /\ PipeIdle
    /\ ParseIdle /\ AssistIdle /\ SingleIdle /\ CountIdle
NextPlanPair ==
    /\ PlanPairNext
    /\ UNCHANGED
         <<batchVars, matchVars, extractVars, pipeVars, parseVars,
         assistVars, singleVars, countVars>>
SpecPlanPair == InitPlanPair /\ [][NextPlanPair]_vars

\* Two calls of extractJobListings, from the response on.
InitParse ==
    /\ ParseInit
    /\ BatchIdle /\ MatchIdle /\ ExtractIdle /\ PipeIdle
    /\ PlanIdle /\ AssistIdle /\ SingleIdle /\ CountIdle
NextParse ==
    /\ ParseNext
    /\ UNCHANGED
         <<batchVars, matchVars, extractVars, pipeVars, planVars,
         assistVars, singleVars, countVars>>
SpecParse == InitParse /\ [][NextParse]_vars

\* One model-assisted run of listJobEmails, from the fetched emails on.
InitAssisted ==
    /\ AssistInit
    /\ BatchIdle /\ MatchIdle /\ ExtractIdle /\ PipeIdle
    /\ PlanIdle /\ ParseIdle /\ SingleIdle /\ CountIdle
NextAssisted ==
    /\ AssistNext
    /\ UNCHANGED
         <<batchVars, matchVars, extractVars, pipeVars, planVars, parseVars,
         singleVars, countVars>>
SpecAssisted == InitAssisted /\ [][NextAssisted]_vars

\* One per-email run of listJobEmails, from the fetched emails on.
InitPerEmail ==
    /\ SingleInit
    /\ BatchIdle /\ MatchIdle /\ ExtractIdle /\ PipeIdle
    /\ PlanIdle /\ ParseIdle /\ AssistIdle /\ CountIdle
NextPerEmail ==
    /\ SingleNext
    /\ UNCHANGED
         <<batchVars, matchVars, extractVars, pipeVars, planVars, parseVars,
         assistVars, countVars>>
SpecPerEmail == InitPerEmail /\ [][NextPerEmail]_vars

\* One call of countTokens.
InitCount ==
    /\ CountInit
    /\ BatchIdle /\ MatchIdle /\ ExtractIdle /\ PipeIdle
    /\ PlanIdle /\ ParseIdle /\ AssistIdle /\ SingleIdle
NextCount ==
    /\ CountCall
    /\ UNCHANGED
         <<batchVars, matchVars, extractVars, pipeVars, planVars, parseVars,
         assistVars, singleVars>>
SpecCount == InitCount /\ [][NextCount]_vars

\* ------------------------------------------------------------------------
\* Properties of followRedirectsBatch and followRedirects
\* ------------------------------------------------------------------------
Range(s) == {s[k] : k \in DOMAIN s}
Occurrences(s, u) == Cardinality({k \in DOMAIN s : s[k] = u})
LastIndex(s, u) == CHOOSE k \in DOMAIN s :
                        s[k] = u /\ \A j \in DOMAIN s : s[j] = u => j <= k

\* C1: with maxConcurrent >= 1, the number of probes issued and not yet
\* completed never exceeds maxConcurrent, whatever the length of urls.
C1_BoundedInFlight == maxConcurrent >= 1 => InFlight <= maxConcurrent

\* C1 witness: a full window of 2 probes in flight out of 3 URLs.
C1_Witness == maxConcurrent = 2 /\ Len(urls) = 3 /\ InFlight = 2

\* C2: when followRedirectsBatch returns, the keys of results are exactly
\* the distinct input URLs and the result stored under a URL is the result
\* of a probe of that URL.
C2_KeysAreInputs ==
    pc = "done" =>
        /\ DOMAIN results = Range(urls)
        /\ \A u \in DOMAIN results :
             \E p \in DOMAIN outcomeAt : urls[p] = u /\ outcomeAt[p] = results[u]

\* C2 witness: a returned call on 3 URLs, one of them repeated.
C2_Witness ==
    pc = "done" /\ Len(urls) = 3 /\ Cardinality(DOMAIN results) = 2

\* C3 as stated: a URL occurring more than once in urls is probed exactly
\* once during the call.
C3_ResolvedOnce ==
    pc = "done" => \A u \in Range(urls) : issued[u] = 1

\* C3 amended: a URL occurring n times in urls is probed n times, once per
\* occurrence, and results holds one outcome for it, that of the probe of
\* its last occurrence.
C3_ProbedPerOccurrence ==
    pc = "done" =>
        \A u \in Range(urls) :
            /\ issued[u] = Occurrences(urls, u)
            /\ u \in DOMAIN results
            /\ results[u] = outcomeAt[LastIndex(urls, u)]

\* C3 witness: a returned call in which one URL occurs twice and its two
\* probes gave different outcomes.
C3_Witness ==
    /\ pc = "done"
    /\ \E u \in Range(urls) :
        /\ Occurrences(urls, u) = 2
        /\ \E p, q \in DOMAIN outcomeAt :
             urls[p] = u /\ urls[q] = u /\ outcomeAt[p] # outcomeAt[q]

\* C4: with maxConcurrent >= 1 the windows are the consecutive slices of urls
\* of size maxConcurrent (the last possibly shorter), and a window is started
\* only when no probe of an earlier window is still in flight.
C4_SequentialWindows ==
    [][ (maxConcurrent >= 1 /\ windows' # windows) =>
            /\ InFlight = 0
            /\ Len(windows') = Len(windows) + 1
            /\ LET w == Len(windows') IN
                 windows'[w] = SubSeq(urls, (w - 1) * maxConcurrent + 1,
                                      Min(w * maxConcurrent, Len(urls)))
      ]_vars

\* C4 witness: the second window is running and is shorter than the first.
C4_Witness ==
    /\ maxConcurrent = 2 /\ Len(windows) = 2 /\ Len(windows[2]) = 1
    /\ InFlight = 1

\* C5: followRedirects never throws: no promise of a window is rejected and
\* the batch call is never left by an exception; when the fetch was rejected
\* (timeout or network failure) the result has success = false, finalUrl
\* equal to the original URL and an error message.
C5_Total ==
    /\ pc # "thrown"
    /\ \A k \in DOMAIN batchPromises :
        /\ batchPromises[k].state # "rejected"
        /\ (batchPromises[k].state = "fulfilled"
              /\ batchPromises[k].fetched.kind = "reject") =>
             /\ batchPromises[k].value.success = FALSE
             /\ batchPromises[k].value.finalUrl = batchPromises[k].url
             /\ batchPromises[k].value.error # Undefined

\* C5 witness: a probe whose fetch was rejected has returned.
C5_Witness ==
    \E k \in DOMAIN batchPromises :
        /\ batchPromises[k].state = "fulfilled"
        /\ batchPromises[k].fetched.kind = "reject"

\* C6 as stated: a probe that completes with a non-success HTTP status
\* yields success = false and finalUrl equal to the original URL.
C6_BadStatusFails ==
    \A k \in DOMAIN batchPromises :
        (batchPromises[k].state = "fulfilled"
           /\ batchPromises[k].fetched.kind = "response"
           /\ batchPromises[k].fetched.status # 200) =>
          /\ batchPromises[k].value.success = FALSE
          /\ batchPromises[k].value.finalUrl = batchPromises[k].url
\* ------------------------------------------------------------------------
\* Properties of matchesPattern
\* ------------------------------------------------------------------------
\* The wildcard match of the documentation: `*` stands for any string,
\* every other pattern character for itself, and the whole url is matched.
RECURSIVE WildcardMatch(_, _)
WildcardMatch(u, p) ==
    IF p = <<>> THEN u = <<>>
    ELSE IF Head(p) = "*"
         THEN WildcardMatch(u, Tail(p))
              \/ (u # <<>> /\ WildcardMatch(Tail(u), p))
         ELSE u # <<>> /\ Head(u) = Head(p) /\ WildcardMatch(Tail(u), Tail(p))

\* C8 as stated: matchesPattern(url, pattern) is true exactly when the whole
\* url equals the pattern with each `*` replaced by some possibly empty
\* string; every other character matches only itself.
C8_ExactWildcard ==
    mPc = "returned" => (mResult = WildcardMatch(mUrl, mPattern))
\* ------------------------------------------------------------------------
\* Properties of extractLinks
\* ------------------------------------------------------------------------
\* text contains sub as a substring, compared without regard to case.
ContainsIgnoreCase(text, sub) ==
    \E from \in 1..(Len(text) + 1) :
        /\ from + Len(sub) - 1 <= Len(text)
        /\ toLowerCase(SubSeq(text, from, from + Len(sub) - 1)) = toLowerCase(sub)

\* The candidate of a node, and the subsequence of candidates of the nodes
\* that are to be kept, in document order.
Candidate(n) == [url |-> n.href, text |-> trim(n.text)]
PassesFilters(n) ==
    /\ \A e \in DOMAIN eSource.linkTextExclusions :
            ~ContainsIgnoreCase(trim(n.text), eSource.linkTextExclusions[e])
    /\ \E q \in DOMAIN eSource.jobLinkPatterns :
            matchesPattern(n.href, eSource.jobLinkPatterns[q])

KeepHasAttribute(n) == n.hasHref /\ PassesFilters(n)
KeepNonEmptyHref(n) == n.hasHref /\ n.href # <<>> /\ PassesFilters(n)

RECURSIVE Kept(_, _)
Kept(nodes, nonEmptyOnly) ==
    IF nodes = <<>> THEN <<>>
    ELSE (IF (IF nonEmptyOnly THEN KeepNonEmptyHref(Head(nodes))
                              ELSE KeepHasAttribute(Head(nodes)))
          THEN <<Candidate(Head(nodes))>> ELSE <<>>)
         \o Kept(Tail(nodes), nonEmptyOnly)

\* C9 as stated: extractLinks returns exactly the selected nodes that have
\* an href attribute, pass the text exclusions and match a pattern, in
\* document order.
C9_ExactFilter ==
    (ePc = "returned" /\ eSelectorValid) =>
        eResult = Kept(eSelected, FALSE)

\* C9 amended: extractLinks returns exactly the selected nodes that have a
\* non-empty href attribute, whose trimmed text contains no exclusion as a
\* case-insensitive substring and whose href matches at least one pattern,
\* in document order, nothing added, duplicated or reordered.
C9_ExactFilterNonEmptyHref ==
    (ePc = "returned" /\ eSelectorValid) =>
        eResult = Kept(eSelected, TRUE)

\* C9 witness: of two selected nodes exactly one became a candidate, the
\* other was dropped by a text exclusion written in another case.
C9_Witness ==
    /\ ePc = "returned" /\ eSelectorValid
    /\ Len(eSelected) = 2 /\ Len(eResult) = 1
    /\ eSource.linkTextExclusions = << <<"J">> >>
    /\ \E k \in 1..2 : eSelected[k].hasHref /\ eSelected[k].href # <<>>
                       /\ trim(eSelected[k].text) = <<"j">>

\* C10 as stated: with a syntactically invalid linkSelector extractLinks
\* fails with an error instead of returning an empty candidate sequence.
C10_InvalidSelectorFails ==
    (ePc \in {"returned", "thrown"} /\ ~eSelectorValid) => ePc = "thrown"
\* ------------------------------------------------------------------------
\* Properties of the extraction loop of processJobEmails
\* ------------------------------------------------------------------------
\* C7 as stated: a link whose redirect probe failed or timed out is still
\* output, as a JobListing of its email whose jobLink is the original URL;
\* the failure is reported and the remaining links are still processed.
C7_FailedProbePassesThrough ==
    \A k \in DOMAIN probeLog :
        ~probeLog[k].success =>
            /\ \E j \in DOMAIN allJobListings :
                 allJobListings[j] =
                    jobListing(emailsToProcess[probeLog[k].email],
                               probeLog[k].link, probeLog[k].link.url)
            /\ \E r \in DOMAIN reported :
                 /\ reported[r].level = "warn"
                 /\ reported[r].email = probeLog[k].email
\* C11: every policy's selector is validated while the configuration is
\* loaded: when some selector is invalid the run ends with exit status 1 in
\* loadConfig, before authorize, before any message is listed or fetched
\* and before any link is extracted or probed.
C11_InvalidSelectorAbortsEarly ==
    (\E k \in DOMAIN selectorValid : ~selectorValid[k]) =>
        /\ effects = {}
        /\ pPc \in {"config", "exit"}
        /\ pPc = "exit" => exitCode = 1
        /\ emailData = <<>> /\ allJobListings = <<>> /\ probeLog = <<>>

\* C11 witness: the run has ended in loadConfig on the invalid selector of
\* the second policy, with a non-empty mailbox left untouched.
C11_Witness ==
    /\ selectorValid = <<TRUE, FALSE, TRUE>> /\ pPc = "exit" /\ exitCode = 1
    /\ Len(messages) = 2
\* ------------------------------------------------------------------------
\* Properties of the batch planner
\* ------------------------------------------------------------------------
PlanReturned == planPc = "returned"

\* C12: for a non-empty email list calculateOptimalBatchSize never returns
\* less than 1, however few emails the token budget fits.
C12_AtLeastOne ==
    (PlanReturned /\ planEmails # <<>>) => planResult.value >= 1

\* A huge email under the default limit: no email fits, the result is 1.
C12_Witness ==
    /\ PlanReturned /\ planEmails # <<>>
    /\ planResult.calculated < 1
    /\ planResult.value = 1
    /\ maxBatchSize = 20

\* C13 as stated: for every list, model and integer maxBatchSize the result
\* is never greater than maxBatchSize.
C13_NeverAboveCeiling ==
    PlanReturned => planResult.value <= maxBatchSize

\* C13 as the code has it: the result is never greater than a ceiling of
\* at least 1; under a ceiling below 1 a non-empty list yields 1.
C13_CeilingWhenPositive ==
    PlanReturned =>
        /\ maxBatchSize >= 1 => planResult.value <= maxBatchSize
        /\ (maxBatchSize < 1 /\ planEmails # <<>>) => planResult.value = 1

\* More emails fit than the ceiling allows, and the ceiling is returned.
C13_Witness ==
    /\ PlanReturned /\ planEmails # <<>>
    /\ maxBatchSize = 2
    /\ planResult.calculated > maxBatchSize
    /\ planResult.value = maxBatchSize

\* The limit the specification gives a model: its table entry, else 128000.
SpecLimit(model) ==
    IF model \in {"gpt-5", "gpt-5-mini", "gpt-5-pro"} THEN 400000
    ELSE IF model = "gpt-5-nano" THEN 250000
    ELSE 128000

\* The tokens of the emails from position k to position n.
RECURSIVE SampleTokens(_, _, _)
SampleTokens(emails, k, n) ==
    IF k > n THEN 0
    ELSE countTokens(emails[k], encoderWorks) + SampleTokens(emails, k + 1, n)

\* max(1, min(floor((limit - reserved - overhead) / avg), ceiling)) with
\* avg = total / n.
SpecBatchSize(limit, reserved, overhead, total, n, ceiling) ==
    Max(1, Min(((limit - reserved - overhead) * n) \div total, ceiling))

C15_EmptyReturnsCeiling ==
    (PlanReturned /\ planEmails = <<>>) =>
        /\ planResult.value = maxBatchSize
        /\ planResult.countCalls = 0

C15_Witness ==
    /\ PlanReturned /\ planEmails = <<>>
    /\ maxBatchSize = 2
    /\ planResult.value = 2

\* The emails calculateOptimalBatchSize may look at: the first min(5, n).
Sample(emails) == SubSeq(emails, 1, Min(5, Len(emails)))

BothReturned == planPc = "returned" /\ otherPc = "returned"

\* C16: two non-empty lists with the same first min(5, n) emails get the
\* same batch size under the same model and ceiling.
C16_OnlyTheSample ==
    (/\ BothReturned
     /\ planEmails # <<>> /\ otherEmails # <<>>
     /\ Sample(planEmails) = Sample(otherEmails)) =>
        planResult.value = otherResult.value

\* Two lists of six emails that differ in the sixth only, where the sixth
\* would change the average had it been counted.
C16_Witness ==
    /\ BothReturned
    /\ Len(planEmails) = 6 /\ Len(otherEmails) = 6
    /\ Sample(planEmails) = Sample(otherEmails)
    /\ planEmails[6] # otherEmails[6]
    /\ planResult.sampled = 5
    /\ planResult.value = 20

WrapsArray(text) ==
    /\ text.kind = "json"
    /\ text.value.type = "object"
    /\ text.value.jobs.type = "array"

BareArray(text) == text.kind = "json" /\ text.value.type = "array"

\* C18: a response that is an object with a `jobs` array and a response
\* that is the bare array with the same elements are parsed into the same
\* listing sequence.
C18_WrappedEqualsBare ==
    (/\ parsePc = "returned" /\ otherParsePc = "returned"
     /\ WrapsArray(resultText) /\ BareArray(otherText)
     /\ resultText.value.jobs = otherText.value) =>
        /\ jobListings = otherListings
        /\ jobListings = Return(otherText.value)

C18_Witness ==
    /\ parsePc = "returned" /\ otherParsePc = "returned"
    /\ WrapsArray(resultText) /\ BareArray(otherText)
    /\ resultText.value.jobs = otherText.value
    /\ otherText.value.items = <<"J1", "J2">>
    /\ jobListings.value.items = <<"J1", "J2">>

\* An object that carries the `jobs` field, whatever its value.
CarriesJobs(text) ==
    /\ text.kind = "json"
    /\ text.value.type = "object"
    /\ text.value.jobs.type # "undefined"

\* A valid empty array, bare or wrapped.
ValidEmpty(text) ==
    \/ BareArray(text) /\ text.value.items = <<>>
    \/ WrapsArray(text) /\ text.value.jobs.items = <<>>

\* C19: extractJobListings throws whenever the response is empty, is not
\* parseable, or parses to something that is neither an array nor an object
\* carrying `jobs`; it returns an empty sequence without error only for a
\* valid empty array, bare or wrapped.
C19_FailsUnlessValid ==
    parsePc = "returned" =>
        /\ (~BareArray(resultText) /\ ~CarriesJobs(resultText)) =>
               jobListings.kind = "throw"
        /\ jobListings = Return(JArray(<<>>)) => ValidEmpty(resultText)

\* ------------------------------------------------------------------------
\* Properties of the model-assisted run
\* ------------------------------------------------------------------------
\* The listings of the batches that succeeded, in the order sent.
RECURSIVE ListingsOf(_)
ListingsOf(log) ==
    IF log = <<>> THEN <<>>
    ELSE ListingsOf(SubSeq(log, 1, Len(log) - 1)) \o log[Len(log)].items

AssistEnded == assistPc \in {"done", "exit"}

\* C20: a batch whose response is not valid structured data loses only its
\* own listings: when the run has ended every email has been sent in some
\* batch, and the listings of all batches that succeeded are displayed.
C20_FailedBatchLosesOnlyItself ==
    (AssistEnded /\ \E k \in DOMAIN sent : ~sent[k].ok) =>
        /\ assistPc = "done"
        /\ sent[Len(sent)].from + Len(sent[Len(sent)].batch)
               = Len(assistEmails)
        /\ displayed = ListingsOf(sent)

\* The requests of the log that have neither returned nor failed.
RequestsInFlight == {k \in DOMAIN sent : sent[k].state = "inflight"}

\* C21: at most one model request is in flight at any instant: a request is
\* issued only when every earlier one has returned or failed, and the
\* batches are issued in input order.
C21_OneInFlight ==
    /\ Cardinality(RequestsInFlight) <= 1
    /\ \A k \in RequestsInFlight : k = Len(sent)
    /\ \A k \in DOMAIN sent :
           k < Len(sent) => /\ sent[k].state = "returned"
                            /\ sent[k].from < sent[k + 1].from

\* The third batch is in flight after the first two have returned.
C21_Witness ==
    /\ Len(sent) = 3
    /\ sent[1].state = "returned" /\ sent[2].state = "returned"
    /\ RequestsInFlight = {3}

\* The batches sent so far are consecutive slices of the email list, each
\* of 1 to batchSize emails, only the last of the list being shorter.
BatchesAreSlices ==
    \A k \in DOMAIN sent :
        LET n == Len(sent[k].batch)
        IN  /\ sent[k].from = IF k = 1 THEN 0
                              ELSE sent[k - 1].from + Len(sent[k - 1].batch)
            /\ n >= 1 /\ n <= batchSize
            /\ sent[k].batch
                   = SubSeq(assistEmails, sent[k].from + 1, sent[k].from + n)
            /\ n < batchSize => sent[k].from + n = Len(assistEmails)

\* The batches an email was sent in.
BatchesOf(e) ==
    {k \in DOMAIN sent :
        sent[k].from < e /\ e <= sent[k].from + Len(sent[k].batch)}

\* C29: the batches are consecutive slices of the email list taken with the
\* planned batch size, and when the run has ended every email has been sent
\* to the model in exactly one batch.
C29_EveryEmailInOneBatch ==
    /\ BatchesAreSlices
    /\ AssistEnded =>
           \A e \in DOMAIN assistEmails : Cardinality(BatchesOf(e)) = 1

\* ------------------------------------------------------------------------
\* Properties of the per-email model-assisted run
\* ------------------------------------------------------------------------
Requests == {k \in DOMAIN singleLog : singleLog[k].ev = "request"}
Delays == {k \in DOMAIN singleLog : singleLog[k].ev = "delay"}

\* With a positive delay, a wait lies between every two requests that
\* follow a request that returned.
DelayAfterSuccess ==
    requestDelay > 0 =>
        \A a \in Requests, b \in Requests :
            (a < b /\ singleLog[a + 1].ev = "returned") =>
                \E c \in Delays : a < c /\ c < b

\* With a zero delay nothing waits, and no wait follows the last request.
NoNeedlessDelay ==
    /\ requestDelay = 0 => Delays = {}
    /\ \A c \in Delays : singlePc = "done" => \E b \in Requests : c < b

\* C22: with a positive delay a wait lies between every two successive
\* model requests, also when the earlier of the two failed; with a zero
\* delay nothing waits; no wait follows the last request.
C22_DelayBetweenRequests ==
    /\ requestDelay > 0 =>
           \A a \in Requests, b \in Requests :
               a < b => \E c \in Delays : a < c /\ c < b
    /\ NoNeedlessDelay

\* ------------------------------------------------------------------------
\* Properties of the structural run of processJobEmails
\* ------------------------------------------------------------------------
\* The listing the specification gives a link of an email.
Listing(email, link, url) ==
    [emailFrom |-> email.from, emailSubject |-> email.subject,
     emailDate |-> email.date, jobTitle |-> link.text, jobLink |-> url]

\* The probes of the k-th email that succeeded, in the order made.
RECURSIVE ResolvedOf(_, _)
ResolvedOf(k, log) ==
    IF log = <<>> THEN <<>>
    ELSE LET p == log[1]
             rest == ResolvedOf(k, Tail(log))
         IN  IF p.email = k /\ p.success
             THEN <<Listing(emailsToProcess[k], p.link, p.finalUrl)>> \o rest
             ELSE rest

\* The listings of one call of extractLinks: none when it threw, the
\* resolved links in probe order for a policy that follows redirects, else
\* every link in extraction order.
ListingsOfCall(x) ==
    IF x.kind = "throw" THEN <<>>
    ELSE IF x.source.followJobLink THEN ResolvedOf(x.email, probeLog)
    ELSE [j \in 1..Len(x.links) |->
             Listing(emailsToProcess[x.email], x.links[j], x.links[j].url)]

\* The listings of the calls from position k on, in the order of the calls.
RECURSIVE OutputFrom(_)
OutputFrom(k) ==
    IF k > Len(extractLog) THEN <<>>
    ELSE ListingsOfCall(extractLog[k]) \o OutputFrom(k + 1)

\* The emails are taken in input order, one call of extractLinks each, and
\* the probes of an email follow the extraction order of its links.
InInputOrder ==
    /\ \A k \in DOMAIN extractLog : extractLog[k].email = k
    /\ \A a \in DOMAIN probeLog, b \in DOMAIN probeLog :
          a < b => probeLog[a].email <= probeLog[b].email
    /\ \A k \in DOMAIN extractLog :
          LET mine == SelectSeq(probeLog, LAMBDA p : p.email = k)
          IN  \A j \in DOMAIN mine : mine[j].link = extractLog[k].links[j]

\* A step only appends to the output.
AppendOnly ==
    /\ Len(allJobListings') >= Len(allJobListings)
    /\ SubSeq(allJobListings', 1, Len(allJobListings)) = allJobListings

\* C23: the output is ordered by email input order and within an email by
\* extraction order, it only grows by appending, and equal listings are
\* not merged.
C23_OrderedAppendOnly ==
    /\ [](InInputOrder /\ allJobListings = OutputFrom(1))
    /\ [][AppendOnly]_vars

\* Two emails with the same headers and the same link have each given
\* their listing: the output holds the same listing twice.
C23_Witness ==
    /\ pPc = "done"
    /\ Len(extractLog) = 2
    /\ Len(allJobListings) = 2
    /\ allJobListings[1] = allJobListings[2]

\* Every listing carries the sender, subject and date of an email that was
\* processed and the text of one of the links extracted from it.
ListingsAttributed ==
    \A j \in DOMAIN allJobListings :
        \E k \in DOMAIN extractLog :
            \E q \in DOMAIN extractLog[k].links :
                LET email == emailsToProcess[k]
                    job   == allJobListings[j]
                IN  /\ job.emailFrom = email.from
                    /\ job.emailSubject = email.subject
                    /\ job.emailDate = email.date
                    /\ job.jobTitle = extractLog[k].links[q].text

\* A finished run over two emails from two distinct senders with one
\* matching link each.
TwoSendersOneLinkEach ==
    /\ pPc = "done"
    /\ Len(emailsToProcess) = 2
    /\ emailsToProcess[1].from # emailsToProcess[2].from
    /\ Len(extractLog) = 2
    /\ \A k \in {1, 2} :
           extractLog[k].kind = "return" /\ Len(extractLog[k].links) = 1

\* C24: every listing carries the sender, subject and date of the email
\* its link was extracted from and the link's text as its title; two
\* emails from two distinct senders with one matching link each give
\* exactly two listings, in input order.
C24_AttributedTwoListings ==
    /\ ListingsAttributed
    /\ TwoSendersOneLinkEach =>
           /\ Len(allJobListings) = 2
           /\ \A k \in {1, 2} :
                  /\ allJobListings[k].emailFrom = emailsToProcess[k].from
                  /\ allJobListings[k].jobTitle = extractLog[k].links[1].text

\* An error was reported for an email's extraction.
ErrorReported == \E r \in DOMAIN reported : reported[r].level = "error"

\* A step that reports an error keeps the output and goes on with the
\* next email.
ErrorStepIsolated ==
    Len(reported') > Len(reported)
        /\ reported'[Len(reported')].level = "error" =>
            /\ allJobListings' = allJobListings
            /\ pPc' = "loop"
            /\ emailNum' = emailNum + 1

\* C25: a failure while one email is processed is reported and does not
\* abort the run: the run does not exit, when it has ended extractLinks
\* has been called for every email, and the step that reports the failure
\* leaves the listings already appended as they are.
C25_EmailFailureIsolated ==
    /\ [](ErrorReported =>
            /\ pPc # "exit"
            /\ pPc = "done" =>
                   /\ exitCode = 0
                   /\ Len(extractLog) = Len(emailsToProcess))
    /\ [][ErrorStepIsolated]_vars

\* The extraction of the first email threw, and the second email has
\* given its listing all the same.
C25_Witness ==
    /\ pPc = "done"
    /\ Len(extractLog) = 2
    /\ extractLog[1].kind = "throw"
    /\ reported # <<>> /\ reported[1].level = "error"
    /\ reported[1].email = 1
    /\ Len(allJobListings) >= 1

\* No probe is made or pending for an email whose policy does not follow
\* redirects.
NoProbeWithoutFollow ==
    /\ \A p \in DOMAIN probeLog :
           emailsToProcess[probeLog[p].email].source.followJobLink
    /\ pPc \in {"probe", "delay"} =>
           emailsToProcess[emailNum].source.followJobLink

\* The step that extracts the links of such an email appends one listing
\* per link, its jobLink the link's URL.
PassThroughStep ==
    (/\ Len(extractLog') > Len(extractLog)
     /\ extractLog'[Len(extractLog')].kind = "return"
     /\ ~extractLog'[Len(extractLog')].source.followJobLink) =>
        LET x == extractLog'[Len(extractLog')]
        IN  allJobListings' = allJobListings \o
                [j \in 1..Len(x.links) |->
                    Listing(emailsToProcess[x.email], x.links[j],
                            x.links[j].url)]

\* C26: for a policy with followJobLink = false no probe is issued for any
\* link of its emails, and each candidate link yields exactly one listing
\* whose jobLink is the candidate's URL unchanged.
C26_NoFollowPassesThrough ==
    /\ []NoProbeWithoutFollow
    /\ [][PassThroughStep]_vars

\* An email of the policy that does not follow redirects has given two
\* listings and nothing was probed.
C26_Witness ==
    /\ Len(extractLog) >= 1
    /\ ~extractLog[1].source.followJobLink
    /\ Len(extractLog[1].links) = 2
    /\ Len(allJobListings) >= 2
    /\ allJobListings[2].jobLink = extractLog[1].links[2].url
    /\ probeLog = <<>>

\* sub occurs in s as a run of characters.
Occurs(sub, s) ==
    \E k \in 0..(Len(s) - Len(sub)) : SubSeq(s, k + 1, k + Len(sub)) = sub

\* The policy the specification binds a From header to: the first in
\* configuration order whose sender occurs in it.
BoundTo(from, source) ==
    \E k \in DOMAIN jobEmailSources :
        /\ source = jobEmailSources[k]
        /\ Occurs(jobEmailSources[k].emailSender, from)
        /\ \A j \in 1..(k - 1) : ~Occurs(jobEmailSources[j].emailSender, from)

\* A message the fetch loop keeps.
Kept30(msg) ==
    /\ msg.hasHtml
    /\ \E k \in DOMAIN jobEmailSources :
           Occurs(jobEmailSources[k].emailSender, msg.from)

\* The messages among the first n that the fetch loop keeps.
KeptMessages(n) == SelectSeq(SubSeq(messages, 1, n), Kept30)

\* C30: each email fetched is bound to the first policy in configuration
\* order whose emailSender occurs in its From header and its links are
\* extracted with that policy; a message without HTML body or without
\* such a policy is skipped, gives no listing and causes no probe.
C30_FirstMatchingPolicy ==
    /\ \A k \in DOMAIN emailData :
           BoundTo(emailData[k].from, emailData[k].source)
    /\ \A k \in DOMAIN extractLog :
           /\ extractLog[k].source = emailsToProcess[k].source
           /\ BoundTo(emailsToProcess[k].from, extractLog[k].source)
    /\ pPc \in {"loop", "probe", "delay", "done"} /\ messages # <<>> =>
           /\ Len(emailData) = Len(KeptMessages(Len(messages)))
           /\ \A k \in DOMAIN emailData :
                  /\ emailData[k].from = KeptMessages(Len(messages))[k].from
                  /\ emailData[k].subject
                         = KeptMessages(Len(messages))[k].subject
           /\ Len(extractLog) <= Len(emailData)
    /\ ListingsAttributed
    /\ \A p \in DOMAIN probeLog : probeLog[p].email \in DOMAIN extractLog

\* Of a message without a policy and a message whose From header holds the
\* senders of the first two policies, only the second was bound, to the
\* first policy, and it has given a listing.
C30_Witness ==
    /\ pPc = "done"
    /\ Len(messages) = 2
    /\ messages[1].from = <<"z">>
    /\ Len(emailData) = 1
    /\ emailData[1].from = <<"s", "1">>
    /\ emailData[1].source = jobEmailSources[1]
    /\ allJobListings # <<>>

\* ------------------------------------------------------------------------
\* Properties of countTokens
\* ------------------------------------------------------------------------
\* ceil(n / 4): the least integer whose fourfold reaches n.
CeilQuarter(n) ==
    CHOOSE q \in 0..n : 4 * q >= n /\ \A r \in 0..n : 4 * r >= n => q <= r

\* C27: countTokens always returns; when the encoder fails the result is
\* ceil(characterCount / 4), a non-negative integer that is 0 only for the
\* empty text.
C27_FallbackEstimate ==
    /\ countPc \in {"call", "returned"}
    /\ (countPc = "returned" /\ ~countEncoderWorks) =>
           /\ countResult = CeilQuarter(countText.chars)
           /\ countResult \in Nat
           /\ countResult = 0 <=> countText.chars = 0

\* A text of one character, the encoder failing: the estimate is 1.
C27_Witness ==
    /\ countPc = "returned" /\ ~countEncoderWorks
    /\ countText.chars = 1
    /\ countResult = 1

\* ------------------------------------------------------------------------
\* Termination of followRedirectsBatch
\* ------------------------------------------------------------------------
BatchEnded == pc \in {"done", "thrown"}

\* With a window of at least one URL, or nothing to resolve, the call ends.
TerminatesForPositive ==
    (maxConcurrent >= 1 \/ urls = <<>>) => <>BatchEnded

\* C28: followRedirectsBatch returns after finitely many steps for every
\* finite URL list and every integer maxConcurrent, every probe settling.
\* Stated for the steps maxConcurrent >= 0, where the loop is followed
\* without any cut: with a step of 0 the loop index never moves.  (A negative
\* step moves the index away from urls.length for ever as well.)
C28_Terminates == (maxConcurrent >= 0) => <>BatchEnded

====
